---- MODULE Spec2Model ----
(***************************************************************************)
(* EHR Navigator (backend/app/services/ehr_navigator.py): the four-stage   *)
(* progressive-narrowing pipeline Discover -> Identify -> Execute/Extract  *)
(* -> Synthesize, its LangGraph state reducer, the batch and streaming     *)
(* entry points, and the text sanitizer applied to every model completion. *)
(*                                                                         *)
(* A text is a sequence of symbols.  A symbol is either one character      *)
(* ("\n", " ", "#", "-", "*") or a word that the code only ever tests as a *)
(* whole ("<think>", "model_output", "thought", "Based on", a resource     *)
(* type name, ...).  Python's str operations are modelled on that          *)
(* representation: find, startswith, strip, split and re.sub act on the    *)
(* symbols exactly as they act on the characters of the joined string.     *)
(***************************************************************************)
EXTENDS Integers, Sequences, FiniteSets, TLC

VARIABLES
    mode,           \* "batch" (navigate_ehr) or "stream" (navigate_ehr_stream)
    pc,             \* the graph node to run next, or "END"
    state,          \* the graph's channel values (AgentState)
    final_state,    \* navigate_ehr_stream's own merged copy of the state
    events,         \* the lines navigate_ehr_stream has yielded so far
    result,         \* <<>> until navigate_ehr returns, then <<its return value>>
    raised,         \* TRUE when an exception has escaped to the caller
    executed,       \* the nodes that have run, in order
    llm_calls,      \* number of llm.invoke calls issued
    store_calls,    \* number of record-store requests issued
    io,             \* the external calls of the node that ran last, with
                    \* their outcomes, in the order they were issued
    answer_writes,  \* the nodes whose returned update carried "answer"
    state_update,   \* the partial update merged last, <<>> before the first
    demand,         \* the consumer has asked navigate_ehr_stream for its
                    \* next line and the generator has not yielded it yet
    closed,         \* the consumer has stopped pulling
    pulls,          \* number of lines the consumer has asked for
    san_pc,         \* sanitizer harness: number of passes applied so far
    san_in,         \* sanitizer harness: the raw completion
    san_out,        \* sanitizer harness: _strip_thinking(san_in)
    san_twice,      \* sanitizer harness: _strip_thinking(san_out)
    san_rest,       \* sanitizer harness: the remainder Y of a marked text
    san_ref,        \* sanitizer harness: _strip_thinking(san_rest)
    runs,           \* two concurrent navigate_ehr_stream invocations: for
                    \* each its locals (session), and the locals and the
                    \* clock of the same invocation given the same
                    \* responses with no other invocation around (alone)
    _agent,         \* the module's compiled graph, "None" until created
    _fhir_client,   \* the module's record-store handle, "None" until created
    interleaved,    \* an invocation has run while the other was suspended
    now             \* the clock time.time() reads, in node run times

vars == <<mode, pc, state, final_state, events, result, raised, executed,
          llm_calls, store_calls, io, answer_writes, state_update, demand,
          closed, pulls,
          san_pc, san_in, san_out, san_twice, san_rest, san_ref,
          runs, _agent, _fhir_client, interleaved, now>>

consumer_vars == <<demand, closed, pulls>>

pipeline_vars == <<mode, pc, state, final_state, events, result, raised,
                   executed, llm_calls, store_calls, io, answer_writes,
                   state_update, consumer_vars>>

san_vars == <<san_pc, san_in, san_out, san_twice, san_rest, san_ref>>

pair_vars == <<runs, _agent, _fhir_client, interleaved, now>>

(***************************************************************************)
(* Bounds of the model                                                     *)
(***************************************************************************)
\* number of catalog types the record store is asked about
NumTypes == 2
\* longest raw completion handed to the sanitizer harness
MaxTextLen == 5
\* longest deliberation span of a marked text
MaxSpanLen == 1
\* number of catalog types the record store holds records of when two
\* invocations run concurrently
PairTypes == 1
\* longest facts list of a state, and of an update, handed to the merge
\* harness
MaxFacts == 1
\* most entries of a bundle handed to the manifest scan harness
MaxEntries == 2

(***************************************************************************)
(* Python string primitives on texts                                       *)
(***************************************************************************)
Whitespace == {" ", "\n", "\r", "\t"}

RECURSIVE lstrip(_)
lstrip(t) ==
    IF t # <<>> /\ Head(t) \in Whitespace THEN lstrip(Tail(t)) ELSE t

RECURSIVE rstrip(_)
rstrip(t) ==
    IF t # <<>> /\ t[Len(t)] \in Whitespace
    THEN rstrip(SubSeq(t, 1, Len(t) - 1))
    ELSE t

\* str.strip()
strip(t) == rstrip(lstrip(t))

\* pat occurs in t at the 1-based position i
OccursAt(t, pat, i) ==
    /\ i + Len(pat) - 1 <= Len(t)
    /\ SubSeq(t, i, i + Len(pat) - 1) = pat

\* str.find(pat): the 0-based index of the first occurrence, -1 when absent
find(t, pat) ==
    IF \E i \in 1..Len(t) : OccursAt(t, pat, i)
    THEN (CHOOSE i \in 1..Len(t) :
             /\ OccursAt(t, pat, i)
             /\ \A j \in 1..(i - 1) : ~OccursAt(t, pat, j)) - 1
    ELSE -1

\* str.startswith(pat)
startswith(t, pat) == OccursAt(t, pat, 1)

\* str.endswith(pat)
endswith(t, pat) ==
    Len(pat) <= Len(t) /\ SubSeq(t, Len(t) - Len(pat) + 1, Len(t)) = pat

\* text[k:] for a 0-based k >= 0
SliceFrom(t, k) == SubSeq(t, k + 1, Len(t))

\* re.sub(r"OPEN[\s\S]*?CLOSE", "", t): every leftmost, shortest,
\* non-overlapping span from a symbol of Open to the next symbol of Close
\* is deleted in one left-to-right pass
RECURSIVE re_sub(_, _, _)
re_sub(t, Open, Close) ==
    IF t = <<>> THEN <<>>
    ELSE IF Head(t) \in Open /\ \E j \in 2..Len(t) : t[j] \in Close
    THEN LET j == CHOOSE j \in 2..Len(t) :
                     /\ t[j] \in Close
                     /\ \A k \in 2..(j - 1) : t[k] \notin Close
         IN  re_sub(SubSeq(t, j + 1, Len(t)), Open, Close)
    ELSE <<Head(t)>> \o re_sub(Tail(t), Open, Close)

(***************************************************************************)
(* _strip_thinking                                                         *)
(***************************************************************************)
\* the symbols r"<unused\d*>" matches
Unused == {"<unused94>", "<unused95>"}

\* the section starters, in the order the loop tries them
SectionMarkers ==
    << <<"\n", "#", "#", " ">>,
       <<"\n", "#", " ">>,
       <<"\n", "*", "*">>,
       <<"\n", "Based on">>,
       <<"\n", "The patient">>,
       <<"\n", "Here is">>,
       <<"\n", "Clinical">>,
       <<"\n", "-", "-", "-">> >>

\* the body of `if text.startswith("thought\n") ...`: the first marker of the
\* list that occurs at a position > 0 decides the cut; without one the first
\* paragraph is dropped
ThoughtPrefix(t) ==
    LET hits == {k \in 1..Len(SectionMarkers) : find(t, SectionMarkers[k]) > 0}
    IN  IF hits # {}
        THEN LET k == CHOOSE k \in hits : \A h \in hits : k <= h
             IN  strip(SliceFrom(t, find(t, SectionMarkers[k])))
        ELSE LET cut == find(t, <<"\n", "\n">>)
             IN  IF cut >= 0 THEN SliceFrom(t, cut + 2) ELSE t

_strip_thinking(text) ==
    LET t1  == strip(re_sub(text, {"<think>"}, {"</think>"}))
        t2  == strip(re_sub(t1, Unused, Unused))
        idx == find(t2, <<"model_output", "\n">>)
        t3  == IF idx >= 0 THEN SliceFrom(t2, idx + 2) ELSE t2
        t4  == IF \/ startswith(t3, <<"thought", "\n">>)
                  \/ startswith(t3, <<"thought", "\r", "\n">>)
               THEN ThoughtPrefix(t3)
               ELSE t3
    IN  strip(t4)

\* _strip_json_decoration; the symbol "FENCE" stands for the three backquotes
\* of a markdown code fence (a backquote cannot be written in a string here)
_strip_json_decoration(text) ==
    LET cleaned == strip(text)
    IN  IF startswith(cleaned, <<"FENCE", "json">>) /\ endswith(cleaned, <<"FENCE">>)
        THEN strip(SubSeq(cleaned, 3, Len(cleaned) - 1))
        ELSE IF startswith(cleaned, <<"FENCE">>) /\ endswith(cleaned, <<"FENCE">>)
        THEN strip(SubSeq(cleaned, 2, Len(cleaned) - 1))
        ELSE cleaned

(***************************************************************************)
(* Text helpers                                                            *)
(***************************************************************************)
\* an f-string field: the empty string contributes no symbol
Sym(s) == IF s = "" THEN <<>> ELSE <<s>>

\* sep.join(parts) for a sequence of texts
RECURSIVE Join(_, _)
Join(parts, sep) ==
    IF parts = <<>> THEN <<>>
    ELSE IF Len(parts) = 1 THEN parts[1]
    ELSE parts[1] \o sep \o Join(Tail(parts), sep)

\* the elements of a sequence
Range(s) == {s[i] : i \in 1..Len(s)}

(***************************************************************************)
(* Record store (FHIR server) and the resource summarizers                 *)
(***************************************************************************)
FHIR_RESOURCE_TYPES ==
    <<"Observation", "Condition", "MedicationRequest", "Encounter",
      "DiagnosticReport", "DocumentReference", "DetectedIssue">>

\* the part of the catalog the model's record store is asked about
Catalog == SubSeq(FHIR_RESOURCE_TYPES, 1, NumTypes)

CatalogTypes == Range(Catalog)

\* A resource as the summarizers see it: `display` is the field the type's
\* rule reads first (coding display, text, drug, reason, conclusion, detail),
\* `code` the second one (coding code, status, severity), and `malformed`
\* says that a field has a shape the rule cannot index (an empty coding
\* list, a null where an object is expected, undecodable attachment data).
Resource(rtype, display, code, malformed) ==
    [resourceType |-> rtype, id |-> "1", display |-> display,
     code |-> code, malformed |-> malformed]

\* _summarize_resource_brief raises on this resource
BriefRaises(resource) ==
    /\ resource.malformed
    /\ resource.resourceType \notin {"DocumentReference", "DetectedIssue"}

\* _summarize_resource_brief, for a resource it does not raise on
_summarize_resource_brief(resource) ==
    LET rtype   == resource.resourceType
        display == resource.display
        code    == resource.code
    IN  CASE rtype = "Observation" ->
                 IF display # "" THEN <<display, "=">> \o Sym(code) ELSE <<>>
          [] rtype \in {"Condition", "MedicationRequest"} ->
                 IF code # "" THEN Sym(display) \o <<"=">> \o Sym(code)
                 ELSE Sym(display)
          [] rtype = "Encounter" ->
                 IF display # "" THEN <<display, "=">> \o Sym(code) ELSE <<>>
          [] rtype = "DiagnosticReport" -> Sym(display)
          [] rtype = "DocumentReference" -> <<"SOAP Note">>
          [] rtype = "DetectedIssue" -> Sym(display) \o <<"=">> \o Sym(code)
          [] OTHER -> <<>>

\* _summarize_resource_full raises on this resource
FullRaises(resource) ==
    resource.malformed /\ resource.resourceType # "DetectedIssue"

\* _summarize_resource_full, for a resource it does not raise on
_summarize_resource_full(resource) ==
    LET rtype == resource.resourceType
        head  == CASE rtype = "Observation" -> "Lab"
                   [] rtype = "Condition" -> "Condition"
                   [] rtype = "MedicationRequest" -> "Medication"
                   [] rtype = "Encounter" -> "Encounter"
                   [] rtype = "DiagnosticReport" -> "DiagnosticReport"
                   [] rtype = "DocumentReference" -> "Document"
                   [] rtype = "DetectedIssue" -> "DetectedIssue"
                   [] OTHER -> rtype
    IN  <<head, " [", resource.id, "]: ">> \o Sym(resource.display)
            \o <<" ">> \o Sym(resource.code)

\* The bundles a GET on the record store returns in the model, for the type
\* asked for: no entry, one entry (well formed, without display and code,
\* malformed) or two well-formed entries, the second without display.
Bundles(rtype) ==
    LET good   == Resource(rtype, "Glucose", "2345-7", FALSE)
        blank  == Resource(rtype, "", "", FALSE)
        broken == Resource(rtype, "", "", TRUE)
    IN  { <<>>, <<good>>, <<blank>>, <<broken>>, <<good, blank>> }

\* what one GET on the record store can produce: an HTTP/transport error
\* (raise_for_status or the client raises) or a bundle
HttpError == [ok |-> FALSE, entries |-> <<>>]

StoreResponses(rtype) ==
    {HttpError} \cup {[ok |-> TRUE, entries |-> b] : b \in Bundles(rtype)}

\* the outcomes of one GET per position of a sequence of types
RECURSIVE StoreOutcomes(_)
StoreOutcomes(rtypes) ==
    IF rtypes = <<>> THEN {<<>>}
    ELSE {<<r>> \o rest : r \in StoreResponses(Head(rtypes)),
                          rest \in StoreOutcomes(Tail(rtypes))}

\* entries of a node's call log
Get(rtype, resp) == [api |-> "GET", rtype |-> rtype, resp |-> resp]
Llm(rtype, resp) == [api |-> "LLM", rtype |-> rtype, resp |-> resp]

\* the body of the try block of get_patient_data_manifest for one type:
\* exc says that it raised, codes are the summaries it stored (<<>>: no key)
ScanType(rtype, resp) ==
    IF ~resp.ok THEN [exc |-> TRUE, codes |-> <<>>]
    ELSE IF resp.entries = <<>> THEN [exc |-> FALSE, codes |-> <<>>]
    ELSE IF \E i \in 1..Len(resp.entries) : BriefRaises(resp.entries[i])
    THEN [exc |-> TRUE, codes |-> <<>>]
    ELSE LET briefs == [i \in 1..Len(resp.entries) |->
                           _summarize_resource_brief(resp.entries[i])]
         IN  [exc |-> FALSE, codes |-> SelectSeq(briefs, LAMBDA b : b # <<>>)]

\* an iteration whose except clause starts the manifest over
ScanUnit_reset(rtype, acc, resp) ==
    LET scan == ScanType(rtype, resp)
        seen == [acc EXCEPT !.calls = Append(@, Get(rtype, resp))]
    IN  IF scan.exc THEN [seen EXCEPT !.manifest = <<>>]
        ELSE IF scan.codes = <<>> THEN seen
        ELSE [seen EXCEPT !.manifest = @ @@ (rtype :> scan.codes)]

\* one iteration of the loop of get_patient_data_manifest: acc holds the
\* manifest built so far; the except clause of the loop body logs the
\* exception and the loop goes on to the next type
ScanUnit(rtype, acc, resp) ==
    LET scan == ScanType(rtype, resp)
        seen == [acc EXCEPT !.calls = Append(@, Get(rtype, resp))]
    IN  IF scan.exc THEN seen
        ELSE IF scan.codes = <<>> THEN seen
        ELSE [seen EXCEPT !.manifest = @ @@ (rtype :> scan.codes)]

\* the loop from catalog position i on; an exception that leaves an
\* iteration ends the loop
RECURSIVE ManifestLoop(_, _, _)
ManifestLoop(i, acc, resp) ==
    IF i > Len(Catalog) \/ acc.exc THEN acc
    ELSE ManifestLoop(i + 1, ScanUnit(Catalog[i], acc, resp[i]), resp)

\* get_patient_data_manifest, given the store's response to the query of each
\* catalog position
get_patient_data_manifest(resp) ==
    ManifestLoop(1, [exc |-> FALSE, manifest |-> <<>>, calls |-> <<>>], resp)

\* list(manifest.keys()): keys are inserted in catalog order
ManifestKeys(manifest) ==
    SelectSeq(FHIR_RESOURCE_TYPES, LAMBDA t : t \in DOMAIN manifest)

(***************************************************************************)
(* Model completions and json.loads                                        *)
(***************************************************************************)
\* a JSON string literal as one symbol
StrLit(name) == "\"" \o name \o "\""

\* the names a completion may quote: the catalog and one type that no
\* manifest ever holds
QuotableNames == CatalogTypes \cup {"AllergyIntolerance"}

\* symbols that are a complete JSON value other than an array
JsonStrings == {StrLit(n) : n \in QuotableNames}
JsonAtoms == JsonStrings \cup {"{}", "1", "null"}

\* json.loads: kind "error" is JSONDecodeError, kind "list" a JSON array of
\* atoms (items holds their symbols), kind "other" any other JSON value.
\* Whitespace between JSON tokens is insignificant.
json_loads(text) ==
    LET t    == SelectSeq(text, LAMBDA c : c \notin Whitespace)
        body == SubSeq(t, 2, Len(t) - 1)
        wellFormed ==
            \/ body = <<>>
            \/ /\ Len(body) % 2 = 1
               /\ \A i \in 1..Len(body) :
                      IF i % 2 = 1 THEN body[i] \in JsonAtoms ELSE body[i] = ","
    IN  IF Len(t) = 1 /\ t[1] \in JsonAtoms THEN [kind |-> "other", items |-> <<>>]
        ELSE IF Len(t) >= 2 /\ t[1] = "[" /\ t[Len(t)] = "]" /\ wellFormed
        THEN [kind |-> "list",
              items |-> [i \in 1..((Len(body) + 1) \div 2) |-> body[2 * i - 1]]]
        ELSE [kind |-> "error", items |-> <<>>]

\* `t in manifest` raises TypeError for an unhashable t (a JSON object)
Unhashable(item) == item = "{}"

\* a filter on the catalog instead of the manifest
InManifest_catalog(item, manifest) ==
    \E n \in CatalogTypes : item = StrLit(n)

\* `t in manifest` for a hashable item
InManifest(item, manifest) ==
    \E n \in DOMAIN manifest : item = StrLit(n)

\* the Python value of a JSON string literal
Unquote(item, manifest) ==
    CHOOSE n \in QuotableNames : item = StrLit(n)

\* what llm.invoke can produce: it raises (transport error, timeout,
\* non-success status) or returns a completion
LLMError == [ok |-> FALSE, content |-> <<>>]
Completion(text) == [ok |-> TRUE, content |-> text]

\* a JSON array of the given atoms as the model would write it
JsonArray(items) ==
    <<"[">> \o Join([i \in 1..Len(items) |-> <<items[i]>>], <<",", " ">>) \o <<"]">>

\* Completions of the Identify prompt.  Arrays: empty, one catalog type, two
\* catalog types (the same one twice included), a type no manifest holds,
\* alone and after a catalog type, a number, an object; one array in a code
\* fence and one behind a thinking block.  Non-conforming outputs: nothing,
\* an object, a bare string, an unterminated array, an array behind an
\* unclosed thinking marker, prose around the array.
IdentifyArrays ==
    {<<>>, <<StrLit("AllergyIntolerance")>>, <<"1">>, <<"{}">>,
     <<StrLit(Catalog[1]), StrLit("AllergyIntolerance")>>}
        \cup {<<StrLit(a)>> : a \in CatalogTypes}
        \cup {<<StrLit(a), StrLit(b)>> : a, b \in CatalogTypes}

IdentifyCompletions ==
    {JsonArray(a) : a \in IdentifyArrays}
        \cup { <<"FENCE", "json", "\n">> \o JsonArray(<<StrLit(Catalog[1])>>)
                   \o <<"\n", "FENCE">>,
               <<"<think>", "X", "</think>">> \o JsonArray(<<StrLit(Catalog[1])>>),
               <<>>,
               <<"{}">>,
               <<StrLit(Catalog[1])>>,
               <<"[", StrLit(Catalog[1])>>,
               <<"<think>", "[", "]">>,
               <<"Relevant", " ", "types", ":", " ", "[", "]">> }

IdentifyResponses == {LLMError} \cup {Completion(c) : c \in IdentifyCompletions}

\* completions of the extraction prompt: a bullet behind a "thought"
\* paragraph, and a completion that sanitizes to nothing
ExtractCompletions ==
    { <<"thought", "\n", "X", "\n", "\n", "-", " ", "Glucose 142 mg/dL">>,
      <<"<think>", "X", "</think>">> }

ExtractResponses == {LLMError} \cup {Completion(c) : c \in ExtractCompletions}

\* completions of the synthesis prompt
SynthesisCompletions ==
    { <<"model_output", "\n", "#", "#", " ", "Answer", "\n", "142 mg/dL">>,
      <<"<unused94>", "X", "<unused95>">> }

SynthesisResponses == {LLMError} \cup {Completion(c) : c \in SynthesisCompletions}

(***************************************************************************)
(* AgentState and the graph nodes                                          *)
(***************************************************************************)
NoDataAnswer == <<"No clinical data found for this patient in the EHR.">>
NoRelevantDataAnswer ==
    <<"No relevant clinical data found to answer this question.">>
ExtractedFactsHeader == <<"*", "*", "Extracted Facts:", "*", "*", "\n", "\n">>

\* initial_state of navigate_ehr and navigate_ehr_stream
initial_state(question, patient_id) ==
    [question |-> question, patient_id |-> patient_id, manifest |-> <<>>,
     relevant_types |-> <<>>, facts |-> <<>>, resources_consulted |-> <<>>,
     reasoning |-> <<>>, answer |-> <<>>]

\* A node's outcome: exc says that an exception left the node, update is the
\* partial state it returned otherwise, calls is the log of its external calls.
Returned(update, calls) == [exc |-> FALSE, update |-> update, calls |-> calls]

\* discover_manifest, given the store's response to each manifest query
discover_manifest(st, resp) ==
    LET scanned  == get_patient_data_manifest(resp)
        manifest == scanned.manifest
    IN  IF scanned.exc
        THEN [exc |-> TRUE, update |-> <<>>, calls |-> scanned.calls]
        ELSE IF DOMAIN manifest = {}
        THEN Returned([manifest |-> <<>>, answer |-> NoDataAnswer,
                       facts |-> <<>>, resources_consulted |-> <<>>],
                      scanned.calls)
        ELSE Returned([manifest |-> manifest], scanned.calls)

\* the try block of identify_relevant_types after llm.invoke returned:
\* the selection, or fallthrough when the JSON does not decode, is not a
\* list, or the membership test raises (all end in the fallback)
IdentifySelection(manifest, content) ==
    LET raw   == _strip_json_decoration(_strip_thinking(content))
        types == json_loads(raw)
    IN  IF types.kind = "list"
           /\ \A i \in 1..Len(types.items) : ~Unhashable(types.items[i])
        THEN [selected |-> TRUE,
              relevant |->
                  LET kept == SelectSeq(types.items,
                                        LAMBDA t : InManifest(t, manifest))
                  IN  [i \in 1..Len(kept) |-> Unquote(kept[i], manifest)]]
        ELSE [selected |-> FALSE, relevant |-> <<>>]

\* the fallback of identify_relevant_types closed instead of open
IdentifyFallback_closed(manifest) == <<>>

\* the fallback of identify_relevant_types: all manifest types
IdentifyFallback(manifest) == ManifestKeys(manifest)

\* identify_relevant_types, given the outcome of its model call
identify_relevant_types(st, resp) ==
    LET manifest == st.manifest
        fallback == IdentifyFallback(manifest)
        calls    == <<Llm("", resp)>>
    IN  IF DOMAIN manifest = {}
        THEN Returned([relevant_types |-> <<>>], <<>>)
        ELSE IF ~resp.ok
        THEN Returned([relevant_types |-> fallback], calls)
        ELSE LET sel == IdentifySelection(manifest, resp.content)
             IN  IF sel.selected
                 THEN Returned([relevant_types |-> sel.relevant], calls)
                 ELSE Returned([relevant_types |-> fallback], calls)

\* f"{rtype} ({len(resources)})"
ConsultedLabel(rtype, n) == <<rtype, " (", ToString(n), ")">>

\* f"--- {rtype} ---\n{facts}"
FactsBlock(rtype, facts) ==
    <<"-", "-", "-", " ", rtype, " ", "-", "-", "-", "\n">> \o facts

\* "\n".join(_summarize_resource_full(r) for r in resources)
ResourceText(resources) ==
    Join([i \in 1..Len(resources) |-> _summarize_resource_full(resources[i])],
         <<"\n">>)

\* the fallback of the extraction without the detail text
FallbackFacts_empty(rtype, resource_text) == FactsBlock(rtype, <<>>)

\* the inner except clause of execute_and_extract: the raw summaries are the
\* facts
FallbackFacts(rtype, resource_text) == FactsBlock(rtype, resource_text)

\* The try block of one iteration of the loop of execute_and_extract for
\* rtype: acc holds all_facts, resources_consulted and the calls made so far,
\* fetch is the outcome of get_patient_fhir_resource and llm that of the
\* model call.  exc says that an exception left the block; what was appended
\* before it stays appended.  The inner except clause falls back to the raw
\* detail text.
ExtractTry(rtype, acc, fetch, llm) ==
    LET fetched == [acc EXCEPT !.calls = Append(@, Get(rtype, fetch))]
    IN  IF ~fetch.ok THEN [fetched EXCEPT !.exc = TRUE]
        ELSE IF fetch.entries = <<>> THEN fetched
        ELSE LET resources == fetch.entries
                 labelled  ==
                     [fetched EXCEPT !.resources_consulted =
                         Append(@, ConsultedLabel(rtype, Len(resources)))]
             IN  IF \E i \in 1..Len(resources) : FullRaises(resources[i])
                 THEN [labelled EXCEPT !.exc = TRUE]
                 ELSE LET resource_text == ResourceText(resources)
                          asked ==
                              [labelled EXCEPT !.calls = Append(@, Llm(rtype, llm))]
                      IN  IF ~llm.ok
                          THEN [asked EXCEPT !.all_facts =
                                   Append(@, FallbackFacts(rtype, resource_text))]
                          ELSE LET facts == _strip_thinking(llm.content)
                               IN  IF facts # <<>>
                                   THEN [asked EXCEPT !.all_facts =
                                            Append(@, FactsBlock(rtype, facts))]
                                   ELSE asked

\* ExtractUnit without the outer except clause
ExtractUnit_uncaught(rtype, acc, fetch, llm) ==
    ExtractTry(rtype, acc, fetch, llm)

\* one iteration with its outer except clause: the exception is logged and
\* the loop goes on to the next type
ExtractUnit(rtype, acc, fetch, llm) ==
    [ExtractTry(rtype, acc, fetch, llm) EXCEPT !.exc = FALSE]

\* the loop of execute_and_extract from position i of relevant_types on; an
\* exception that leaves an iteration ends the loop
RECURSIVE ExtractLoop(_, _, _, _, _)
ExtractLoop(i, relevant_types, acc, fetch, llm) ==
    IF i > Len(relevant_types) \/ acc.exc THEN acc
    ELSE ExtractLoop(i + 1, relevant_types,
                     ExtractUnit(relevant_types[i], acc, fetch[i], llm[i]),
                     fetch, llm)

\* a stage that a failed fetch aborts: it returns what an empty selection
\* returns
execute_and_extract_abort(st, fetch, llm) ==
    IF st.relevant_types = <<>>
    THEN Returned([facts |-> <<>>, resources_consulted |-> <<>>], <<>>)
    ELSE LET acc == ExtractLoop(1, st.relevant_types,
                                [exc |-> FALSE, all_facts |-> <<>>,
                                 resources_consulted |-> <<>>, calls |-> <<>>],
                                fetch, llm)
         IN  IF \E i \in 1..Len(fetch) : ~fetch[i].ok
             THEN Returned([facts |-> <<>>, resources_consulted |-> <<>>],
                           acc.calls)
             ELSE [exc |-> acc.exc,
                   update |-> [facts |-> acc.all_facts,
                               resources_consulted |-> acc.resources_consulted],
                   calls |-> acc.calls]

\* execute_and_extract, given for each position of relevant_types the
\* outcome of its fetch and of its model call
execute_and_extract(st, fetch, llm) ==
    IF st.relevant_types = <<>>
    THEN Returned([facts |-> <<>>, resources_consulted |-> <<>>], <<>>)
    ELSE LET acc == ExtractLoop(1, st.relevant_types,
                                [exc |-> FALSE, all_facts |-> <<>>,
                                 resources_consulted |-> <<>>, calls |-> <<>>],
                                fetch, llm)
         IN  [exc |-> acc.exc,
              update |-> [facts |-> acc.all_facts,
                          resources_consulted |-> acc.resources_consulted],
              calls |-> acc.calls]

\* a fallback answer that keeps the first facts block only
SynthesisFallback_first(facts) == ExtractedFactsHeader \o facts[1]

\* the answer of the except clause of synthesize_answer
SynthesisFallback(facts) ==
    ExtractedFactsHeader \o Join(facts, <<"\n", "\n">>)

\* synthesize_answer past its guard, given the outcome of its model call
SynthesizeFromFacts(st, resp) ==
    LET facts == st.facts
        joined_facts == Join(facts, <<"\n", "\n">>)
        reasoning == joined_facts
        calls == <<Llm("", resp)>>
    IN  IF resp.ok
        THEN Returned([answer |-> _strip_thinking(resp.content),
                       reasoning |-> reasoning], calls)
        ELSE Returned([answer |-> SynthesisFallback(facts),
                       reasoning |-> <<>>], calls)

\* synthesize_answer without its guard on empty facts
synthesize_answer_unguarded(st, resp) == SynthesizeFromFacts(st, resp)

\* a synthesize_answer that also clears the selection it has used up
synthesize_answer_clears(st, resp) ==
    LET out == IF st.facts = <<>>
               THEN Returned([answer |-> NoRelevantDataAnswer,
                              reasoning |-> <<>>], <<>>)
               ELSE SynthesizeFromFacts(st, resp)
    IN  [out EXCEPT !.update = [relevant_types |-> <<>>] @@ @]

\* synthesize_answer, given the outcome of its model call
synthesize_answer(st, resp) ==
    IF st.facts = <<>>
    THEN Returned([answer |-> NoRelevantDataAnswer, reasoning |-> <<>>], <<>>)
    ELSE SynthesizeFromFacts(st, resp)

(***************************************************************************)
(* The compiled graph                                                      *)
(***************************************************************************)
\* a reducer that overwrites facts like every other field
Reduce_overwrite(field, old, new) == new

\* AgentState's channels: facts is Annotated[list, operator.add], every
\* other field keeps the last value written
Reduce(field, old, new) == IF field = "facts" THEN old \o new ELSE new

\* a merge that replaces the state by the update: fields the update does not
\* carry fall back to their initial value
ApplyUpdate_replace(st, update) ==
    [k \in DOMAIN st |->
        IF k \in DOMAIN update THEN update[k]
        ELSE initial_state(st.question, st.patient_id)[k]]

\* the graph's merge of a node's partial update into its state
ApplyUpdate(st, update) ==
    [k \in DOMAIN st |->
        IF k \in DOMAIN update THEN Reduce(k, st[k], update[k]) ELSE st[k]]

\* _should_continue_after_discover without the test of the manifest
_should_continue_always(st) == "identify"

\* _should_continue_after_discover and the edges of build_ehr_navigator_graph
_should_continue_after_discover(st) ==
    IF DOMAIN st.manifest = {} THEN "end" ELSE "identify"

\* the edges without the one from execute_and_extract to synthesize_answer
NextNode_no_synthesis(node, st) ==
    CASE node = "discover_manifest" ->
             IF _should_continue_after_discover(st) = "end"
             THEN "END" ELSE "identify_relevant_types"
      [] node = "identify_relevant_types" -> "execute_and_extract"
      [] OTHER -> "END"

\* the edges with a plain edge from discover_manifest to
\* identify_relevant_types
NextNode_unconditional(node, st) ==
    CASE node = "discover_manifest" -> "identify_relevant_types"
      [] node = "identify_relevant_types" -> "execute_and_extract"
      [] node = "execute_and_extract" -> "synthesize_answer"
      [] OTHER -> "END"

\* the edges with a retry edge from execute_and_extract back to
\* identify_relevant_types when no facts were extracted
NextNode_retry(node, st) ==
    CASE node = "discover_manifest" ->
             IF _should_continue_after_discover(st) = "end"
             THEN "END" ELSE "identify_relevant_types"
      [] node = "identify_relevant_types" -> "execute_and_extract"
      [] node = "execute_and_extract" ->
             IF st.facts = <<>> THEN "identify_relevant_types"
             ELSE "synthesize_answer"
      [] OTHER -> "END"

\* the edges with an edge from synthesize_answer back to the entry point
NextNode_cycle(node, st) ==
    CASE node = "discover_manifest" ->
             IF _should_continue_after_discover(st) = "end"
             THEN "END" ELSE "identify_relevant_types"
      [] node = "identify_relevant_types" -> "execute_and_extract"
      [] node = "execute_and_extract" -> "synthesize_answer"
      [] OTHER -> "discover_manifest"

\* the entry point, the conditional edge after discover_manifest and the
\* plain edges of build_ehr_navigator_graph
NextNode(node, st) ==
    CASE node = "discover_manifest" ->
             IF _should_continue_after_discover(st) = "end"
             THEN "END" ELSE "identify_relevant_types"
      [] node = "identify_relevant_types" -> "execute_and_extract"
      [] node = "execute_and_extract" -> "synthesize_answer"
      [] node = "synthesize_answer" -> "END"

(***************************************************************************)
(* navigate_ehr_stream's adapter and navigate_ehr's return value           *)
(***************************************************************************)
\* the adapter's merge without the extension of facts
StreamMerge_no_extend(fs, update) ==
    [k \in DOMAIN fs \cup DOMAIN update |->
        IF k \in DOMAIN update /\ k # "facts" THEN update[k] ELSE fs[k]]

\* the loop `for k, v in state_update.items()` of navigate_ehr_stream
StreamMerge(fs, update) ==
    [k \in DOMAIN fs \cup DOMAIN update |->
        IF k \in DOMAIN update
        THEN IF k = "facts" THEN fs[k] \o update[k] ELSE update[k]
        ELSE fs[k]]

step_names(node) ==
    CASE node = "discover_manifest" -> "Discovering patient records..."
      [] node = "identify_relevant_types" -> "Identifying relevant data..."
      [] node = "execute_and_extract" -> "Extracting clinical facts..."
      [] node = "synthesize_answer" -> "Synthesizing answer..."
      [] OTHER -> node

\* reasoning_text of a progress line; fs is final_state after the merge
ReasoningText(node, update, fs) ==
    CASE node = "discover_manifest" ->
             LET manifest == IF "manifest" \in DOMAIN update
                             THEN update.manifest ELSE <<>>
                 keys == ManifestKeys(manifest)
             IN  IF DOMAIN manifest # {}
                 THEN <<"Found: ">> \o
                      Join([i \in 1..Len(keys) |->
                               <<keys[i], " (", ToString(Len(manifest[keys[i]])), ")">>],
                           <<", ">>)
                 ELSE <<"No data found">>
      [] node = "identify_relevant_types" ->
             LET types == IF "relevant_types" \in DOMAIN update
                          THEN update.relevant_types ELSE <<>>
             IN  IF types # <<>>
                 THEN <<"Selected: ">> \o
                      Join([i \in 1..Len(types) |-> <<types[i]>>], <<", ">>)
                 ELSE <<"No types selected">>
      [] node = "execute_and_extract" ->
             IF fs.facts # <<>> THEN Join(fs.facts, <<"\n">>)
             ELSE <<"No facts extracted">>
      [] node = "synthesize_answer" -> <<"Complete">>
      [] OTHER -> <<>>

\* the progress line yielded after a node
ProgressEvent(node, update, fs) ==
    [step |-> node, label |-> step_names(node),
     reasoning |-> ReasoningText(node, update, fs)]

\* the payload both entry points build from their final state
ResultPayload(fs, elapsed) ==
    [answer |-> fs.answer, reasoning |-> fs.reasoning,
     resources_consulted |-> fs.resources_consulted,
     facts_extracted |-> Len(fs.facts), processing_time_ms |-> elapsed]

\* the last line of the stream
DoneEvent(fs, elapsed) == [step |-> "done", data |-> ResultPayload(fs, elapsed)]

\* elapsed wall-clock times, in ms
ElapsedTimes == {50}

(***************************************************************************)
(* One run                                                                 *)
(***************************************************************************)
Questions == {"What is the latest glucose?"}
PatientIds == {"p1"}

Init ==
    /\ mode \in {"batch", "stream"}
    /\ pc = "discover_manifest"
    /\ \E q \in Questions, p \in PatientIds :
          /\ state = initial_state(q, p)
          /\ final_state = initial_state(q, p)
    /\ events = <<>>
    /\ result = <<>>
    /\ raised = FALSE
    /\ executed = <<>>
    /\ llm_calls = 0
    /\ store_calls = 0
    /\ io = <<>>
    /\ answer_writes = <<>>
    /\ state_update = <<>>
    /\ demand = FALSE
    /\ closed = FALSE
    /\ pulls = 0
    /\ san_pc = 0
    /\ san_in = <<>>
    /\ san_out = <<>>
    /\ san_twice = <<>>
    /\ san_rest = <<>>
    /\ san_ref = <<>>
    /\ runs = <<>>
    /\ _agent = "None"
    /\ _fhir_client = "None"
    /\ interleaved = FALSE
    /\ now = 0

\* the number of calls of an API in a call log
Count(calls, api) == Cardinality({i \in 1..Len(calls) : calls[i].api = api})

\* A node has run with outcome out: the graph merges its update and follows
\* the edge; in streaming mode the adapter merges the update into final_state
\* and yields the progress line.  An exception that leaves the node leaves
\* the entry point too.
\* a generator that runs its nodes without waiting to be asked
Demanded_eager == TRUE

\* navigate_ehr_stream is a generator: its body runs only while the consumer
\* waits for its next line; navigate_ehr runs to its end
Demanded == mode = "stream" => (demand /\ ~closed)

Step(node, out) ==
    /\ Demanded
    /\ executed' = Append(executed, node)
    /\ io' = out.calls
    /\ answer_writes' = IF ~out.exc /\ "answer" \in DOMAIN out.update
                        THEN Append(answer_writes, node)
                        ELSE answer_writes
    /\ state_update' = IF out.exc THEN state_update ELSE out.update
    /\ demand' = FALSE
    /\ UNCHANGED <<closed, pulls>>
    /\ llm_calls' = llm_calls + Count(out.calls, "LLM")
    /\ store_calls' = store_calls + Count(out.calls, "GET")
    /\ UNCHANGED <<mode, result, san_vars, pair_vars>>
    /\ IF out.exc
       THEN /\ raised' = TRUE
            /\ pc' = "RAISED"
            /\ UNCHANGED <<state, final_state, events>>
       ELSE /\ raised' = raised
            /\ state' = ApplyUpdate(state, out.update)
            /\ pc' = NextNode(node, state')
            /\ IF mode = "stream"
               THEN /\ final_state' = StreamMerge(final_state, out.update)
                    /\ events' = Append(events,
                                        ProgressEvent(node, out.update, final_state'))
               ELSE UNCHANGED <<final_state, events>>

Discover ==
    /\ pc = "discover_manifest"
    /\ \E resp \in StoreOutcomes(Catalog) :
       \E out \in {discover_manifest(state, resp)} :
          Step("discover_manifest", out)

Identify ==
    /\ pc = "identify_relevant_types"
    /\ \E resp \in IdentifyResponses :
       \E out \in {identify_relevant_types(state, resp)} :
          Step("identify_relevant_types", out)

Execute ==
    /\ pc = "execute_and_extract"
    /\ \E fetch \in StoreOutcomes(state.relevant_types) :
       \E llm \in [1..Len(state.relevant_types) -> ExtractResponses] :
       \* no model outcome is drawn where no entry was fetched
       /\ \A i \in 1..Len(fetch) : fetch[i].entries = <<>> => llm[i] = LLMError
       /\ \E out \in {execute_and_extract(state, fetch, llm)} :
             Step("execute_and_extract", out)

Synthesize ==
    /\ pc = "synthesize_answer"
    /\ \E resp \in SynthesisResponses :
       \E out \in {synthesize_answer(state, resp)} :
          Step("synthesize_answer", out)

\* navigate_ehr returns after agent.invoke
Return ==
    /\ mode = "batch"
    /\ pc = "END"
    /\ result = <<>>
    /\ \E elapsed \in ElapsedTimes :
          result' = <<ResultPayload(state, elapsed)>>
    /\ pc' = "RETURNED"
    /\ UNCHANGED <<mode, state, final_state, events, raised, executed,
                   llm_calls, store_calls, io, answer_writes, state_update,
                   consumer_vars, san_vars, pair_vars>>

\* the last line yielded inside the loop over agent.stream, after every node
Done_inside_loop ==
    /\ mode = "stream"
    /\ pc \in {"identify_relevant_types", "execute_and_extract",
               "synthesize_answer", "END"}
    /\ events[Len(events)].step # "done"
    /\ events' = Append(events, DoneEvent(final_state, 50))
    /\ pc' = IF pc = "END" THEN "RETURNED" ELSE pc
    /\ demand' = FALSE
    /\ UNCHANGED <<mode, state, final_state, result, raised, executed,
                   llm_calls, store_calls, io, answer_writes, state_update,
                   closed, pulls, san_vars, pair_vars>>

\* navigate_ehr_stream yields its last line after agent.stream is exhausted
Done ==
    /\ mode = "stream"
    /\ pc = "END"
    /\ Demanded
    /\ \E elapsed \in ElapsedTimes :
          events' = Append(events, DoneEvent(final_state, elapsed))
    /\ pc' = "RETURNED"
    /\ demand' = FALSE
    /\ UNCHANGED <<mode, state, final_state, result, raised, executed,
                   llm_calls, store_calls, io, answer_writes, state_update,
                   closed, pulls, san_vars, pair_vars>>

\* the consumer of navigate_ehr_stream asks for the next line
Pull ==
    /\ mode = "stream"
    /\ ~demand
    /\ ~closed
    /\ pc \notin {"RETURNED", "RAISED"}
    /\ demand' = TRUE
    /\ pulls' = pulls + 1
    /\ UNCHANGED <<mode, pc, state, final_state, events, result, raised,
                   executed, llm_calls, store_calls, io, answer_writes,
                   state_update, closed, san_vars, pair_vars>>

\* the consumer of navigate_ehr_stream goes away between two lines
Abandon ==
    /\ mode = "stream"
    /\ ~demand
    /\ ~closed
    /\ pc \notin {"RETURNED", "RAISED"}
    /\ closed' = TRUE
    /\ UNCHANGED <<mode, pc, state, final_state, events, result, raised,
                   executed, llm_calls, store_calls, io, answer_writes,
                   state_update, demand, pulls, san_vars, pair_vars>>

Next ==
    \/ Discover \/ Identify \/ Execute \/ Synthesize
    \/ Return \/ Done \/ Pull \/ Abandon

Spec == Init /\ [][Next]_vars

\* A step that leaves the node that was next, as far as pc goes.  Under Next
\* it is a step of Discover, Identify, Execute or Synthesize, and it is
\* enabled exactly when one of them is: every node has an outcome for the
\* responses it is given.
LeaveNode ==
    /\ pc \in {"discover_manifest", "identify_relevant_types",
                "execute_and_extract", "synthesize_answer"}
    /\ Demanded
    /\ pc' \in {"identify_relevant_types", "execute_and_extract",
                 "synthesize_answer", "END", "RAISED"} \ {pc}

\* One run whose external calls all return or fail: agent.invoke and
\* agent.stream run the node that is next to its end, navigate_ehr then
\* returns and navigate_ehr_stream, resumed, yields its last line; the
\* consumer of the stream asks for the next line as long as it has not gone
\* away.
LiveSpec ==
    /\ Init
    /\ [][Next]_vars
    /\ WF_pc(LeaveNode)
    /\ WF_vars(Return)
    /\ WF_vars(Done)
    /\ WF_vars(Pull)

(***************************************************************************)
(* Sanitizer harness: _strip_thinking applied to a raw completion, then to *)
(* its own output                                                          *)
(***************************************************************************)
SanAlphabet ==
    {"<think>", "</think>", "<unused94>", "<unused95>",
     "model_output", "thought", "\n", "X"}

\* the raw completions of the harness: every text over SanAlphabet of at
\* most MaxTextLen symbols
RawCompletions == UNION {[1..n -> SanAlphabet] : n \in 0..MaxTextLen}

SanInit ==
    /\ mode = "batch"
    /\ pc = "discover_manifest"
    /\ \E q \in Questions, p \in PatientIds :
          /\ state = initial_state(q, p)
          /\ final_state = initial_state(q, p)
    /\ events = <<>>
    /\ result = <<>>
    /\ raised = FALSE
    /\ executed = <<>>
    /\ llm_calls = 0
    /\ store_calls = 0
    /\ io = <<>>
    /\ answer_writes = <<>>
    /\ state_update = <<>>
    /\ demand = FALSE
    /\ closed = FALSE
    /\ pulls = 0
    /\ san_pc = 0
    /\ san_in \in RawCompletions
    /\ san_out = <<>>
    /\ san_twice = <<>>
    /\ san_rest = <<>>
    /\ san_ref = <<>>
    /\ runs = <<>>
    /\ _agent = "None"
    /\ _fhir_client = "None"
    /\ interleaved = FALSE
    /\ now = 0

\* the completion is sanitized
Sanitize ==
    /\ san_pc = 0
    /\ san_out' = _strip_thinking(san_in)
    /\ san_pc' = 1
    /\ UNCHANGED <<san_in, san_twice, san_rest, san_ref, pipeline_vars, pair_vars>>

\* the sanitized text is sanitized again
SanitizeAgain ==
    /\ san_pc = 1
    /\ san_twice' = _strip_thinking(san_out)
    /\ san_pc' = 2
    /\ UNCHANGED <<san_in, san_out, san_rest, san_ref, pipeline_vars, pair_vars>>

SanNext == Sanitize \/ SanitizeAgain

SanSpec == SanInit /\ [][SanNext]_vars

(***************************************************************************)
(* Round-trip harness: _strip_thinking applied to a remainder Y preceded   *)
(* by one deliberation span X in one marker format, and to Y alone         *)
(***************************************************************************)
\* the symbols of a deliberation span: none is a marker
SpanAlphabet == {"X", " "}

\* the symbols of a remainder: none is a thinking marker
RestAlphabet == {"Y", "\n", " ", "#", "Based on"}

Spans == UNION {[1..n -> SpanAlphabet] : n \in 0..MaxSpanLen}

Remainders == UNION {[1..n -> RestAlphabet] : n \in 0..MaxTextLen}

\* Y starts with a section starter (the line break before it is the end of
\* the blank line that closes the thought paragraph)
StartsSection(y) ==
    \E k \in 1..Len(SectionMarkers) : startswith(y, Tail(SectionMarkers[k]))

\* the marker formats: the span X and the remainder Y put together
Marked(fmt, x, y) ==
    CASE fmt = "think"   -> <<"<think>">> \o x \o <<"</think>">> \o y
      [] fmt = "unused"  -> <<"<unused94>">> \o x \o <<"<unused95>">> \o y
      [] fmt = "thought" -> <<"thought", "\n">> \o x \o <<"\n", "\n">> \o y

MarkerFormats == {"think", "unused", "thought"}

RoundTripInit ==
    /\ mode = "batch"
    /\ pc = "discover_manifest"
    /\ \E q \in Questions, p \in PatientIds :
          /\ state = initial_state(q, p)
          /\ final_state = initial_state(q, p)
    /\ events = <<>>
    /\ result = <<>>
    /\ raised = FALSE
    /\ executed = <<>>
    /\ llm_calls = 0
    /\ store_calls = 0
    /\ io = <<>>
    /\ answer_writes = <<>>
    /\ state_update = <<>>
    /\ demand = FALSE
    /\ closed = FALSE
    /\ pulls = 0
    /\ san_pc = 0
    /\ san_rest \in Remainders
    /\ \E fmt \in MarkerFormats, x \in Spans :
          /\ fmt = "thought" => StartsSection(san_rest)
          /\ san_in = Marked(fmt, x, san_rest)
    /\ san_out = <<>>
    /\ san_twice = <<>>
    /\ san_ref = <<>>
    /\ runs = <<>>
    /\ _agent = "None"
    /\ _fhir_client = "None"
    /\ interleaved = FALSE
    /\ now = 0

\* the remainder alone is sanitized
SanitizeRest ==
    /\ san_pc = 1
    /\ san_ref' = _strip_thinking(san_rest)
    /\ san_pc' = 2
    /\ UNCHANGED <<san_in, san_out, san_twice, san_rest, pipeline_vars, pair_vars>>

RoundTripNext == Sanitize \/ SanitizeRest

RoundTripSpec == RoundTripInit /\ [][RoundTripNext]_vars

(***************************************************************************)
(* Merge harness: the graph's reducer and the streaming adapter's merge    *)
(* applied to a state and a partial update, both arbitrary                 *)
(***************************************************************************)
\* the facts lists of the harness
MergeBlocks == {<<"-", " ", "a">>, <<"-", " ", "b">>}

FactLists == UNION {[1..n -> MergeBlocks] : n \in 0..MaxFacts}

\* the states handed to the merge: every field but question and patient_id
\* is empty or holds a value written earlier
MergeStates ==
    [question : Questions, patient_id : PatientIds,
     manifest : {<<>>, "Observation" :> << <<"Glucose", "=", "1">> >>},
     relevant_types : {<<>>, <<"Observation">>},
     facts : FactLists,
     resources_consulted : {<<>>, <<ConsultedLabel("Observation", 1)>>},
     reasoning : {<<>>, <<"old reasoning">>},
     answer : {<<>>, <<"old answer">>}]

\* the values a partial update may carry for the fields a node may write
MergeValues ==
    [manifest : {"Condition" :> << <<"Diabetes", "=", "E11">> >>},
     relevant_types : {<<"Condition">>},
     facts : FactLists,
     resources_consulted : {<<ConsultedLabel("Condition", 2)>>},
     reasoning : {<<>>, <<"new reasoning">>},
     answer : {<<"new answer">>}]

\* the partial updates: any subset of the fields a node may write
MergeUpdates ==
    {[k \in K |-> v[k]] :
        K \in SUBSET {"manifest", "relevant_types", "facts",
                      "resources_consulted", "reasoning", "answer"},
        v \in MergeValues}

MergeInit ==
    /\ mode = "stream"
    /\ pc = "discover_manifest"
    /\ state \in MergeStates
    /\ final_state = state
    /\ events = <<>>
    /\ result = <<>>
    /\ raised = FALSE
    /\ executed = <<>>
    /\ llm_calls = 0
    /\ store_calls = 0
    /\ io = <<>>
    /\ answer_writes = <<>>
    /\ state_update = <<>>
    /\ demand = FALSE
    /\ closed = FALSE
    /\ pulls = 0
    /\ san_pc = 0
    /\ san_in = <<>>
    /\ san_out = <<>>
    /\ san_twice = <<>>
    /\ san_rest = <<>>
    /\ san_ref = <<>>
    /\ runs = <<>>
    /\ _agent = "None"
    /\ _fhir_client = "None"
    /\ interleaved = FALSE
    /\ now = 0

\* a node has returned a partial update: the graph merges it into its state
\* and the streaming adapter into final_state
Merge ==
    /\ state_update = <<>>
    /\ \E u \in MergeUpdates :
          /\ state_update' = u
          /\ state' = ApplyUpdate(state, u)
          /\ final_state' = StreamMerge(final_state, u)
    /\ UNCHANGED <<mode, pc, events, result, raised, executed, llm_calls,
                   store_calls, io, answer_writes, consumer_vars, san_vars,
                   pair_vars>>

MergeNext == Merge

MergeSpec == MergeInit /\ [][MergeNext]_vars

(***************************************************************************)
(* Two concurrent invocations of navigate_ehr_stream.  Each invocation is  *)
(* a coroutine with its own locals; the event loop switches between them   *)
(* where one is suspended, at a yield between two nodes.                   *)
(***************************************************************************)
\* the question and the patient of each invocation
PairQuestions == <<"What is the latest glucose?", "Any allergies?">>
PairPatients == <<"p1", "p2">>

\* the record store's answers in the two-invocation model: an error, or one
\* well-formed record of the type asked for; only the first PairTypes types
\* of a request sequence are ever answered with a record
FoundOne(rtype) ==
    [ok |-> TRUE, entries |-> <<Resource(rtype, "Glucose", "2345-7", FALSE)>>]

PairStoreOutcomes(rtypes) ==
    LET n == IF Len(rtypes) < PairTypes THEN Len(rtypes) ELSE PairTypes
    IN  {[i \in 1..Len(rtypes) |->
             IF i <= n /\ hit[i] THEN FoundOne(rtypes[i]) ELSE HttpError] :
            hit \in [1..n -> BOOLEAN]}

\* the model's answers in the two-invocation model: an error or one
\* completion
PairIdentifyResponses ==
    {LLMError, Completion(JsonArray(<<StrLit(Catalog[1])>>))}
PairExtractResponses ==
    {LLMError, Completion(<<"-", " ", "Glucose 142 mg/dL">>)}
PairSynthesisResponses ==
    {LLMError, Completion(<<"142 mg/dL">>)}

\* the external responses a node may be given in a state
NodeInputs(node, st) ==
    CASE node = "discover_manifest" ->
             {[node |-> node, store |-> f, llm |-> <<>>] :
                 f \in PairStoreOutcomes(Catalog)}
      [] node = "identify_relevant_types" ->
             {[node |-> node, store |-> <<>>, llm |-> <<r>>] :
                 r \in PairIdentifyResponses}
      [] node = "execute_and_extract" ->
             {[node |-> node, store |-> f, llm |-> l] :
                 f \in PairStoreOutcomes(st.relevant_types),
                 l \in {l \in [1..Len(st.relevant_types) -> PairExtractResponses] :
                           \A i \in 1..Len(st.relevant_types) :
                               l[i] = LLMError}
                       \cup [1..Len(st.relevant_types) ->
                                PairExtractResponses \ {LLMError}]}
      [] node = "synthesize_answer" ->
             {[node |-> node, store |-> <<>>, llm |-> <<r>>] :
                 r \in PairSynthesisResponses}

\* a node run on a state with the responses it is given
NodeOutcome(st, inp) ==
    CASE inp.node = "discover_manifest" -> discover_manifest(st, inp.store)
      [] inp.node = "identify_relevant_types" ->
             identify_relevant_types(st, inp.llm[1])
      [] inp.node = "execute_and_extract" ->
             execute_and_extract(st, inp.store, inp.llm)
      [] inp.node = "synthesize_answer" -> synthesize_answer(st, inp.llm[1])

\* the locals of an invocation before its first node
NewSession(r) ==
    [pc          |-> "discover_manifest",
     start       |-> 0,
     state       |-> initial_state(PairQuestions[r], PairPatients[r]),
     final_state |-> initial_state(PairQuestions[r], PairPatients[r]),
     events      |-> <<>>]

\* the body of the loop of navigate_ehr_stream for a node that returned
\* `update`, the clock reading t when the invocation was resumed: the first
\* resumption reads `start`, the update is merged and the node's progress
\* line is yielded
Merged(s, node, update, t) ==
    LET st2 == ApplyUpdate(s.state, update)
        fs2 == StreamMerge(s.final_state, update)
    IN  [s EXCEPT !.pc = NextNode(node, st2),
                  !.start = IF s.events = <<>> THEN t ELSE @,
                  !.state = st2,
                  !.final_state = fs2,
                  !.events = Append(@, ProgressEvent(node, update, fs2))]

\* navigate_ehr_stream past its loop, the clock reading t: `elapsed` is read
\* off the clock and the last line is yielded
Finished(s, t) ==
    [s EXCEPT !.pc = "RETURNED",
              !.events = Append(@, DoneEvent(s.final_state, t - s.start))]

\* the time a resumption takes: a node runs for one unit, the last line
\* takes none
RunTime(inp) == IF inp.node = "done" THEN 0 ELSE 1

\* a module where the session of the first invocation is the one every
\* invocation works on
Session_shared(rs, r) == rs[1].session

\* the session an invocation works on: its own locals
Session(rs, r) == rs[r].session

\* the invocation is suspended between two of its lines
Suspended(run) ==
    run.session.events # <<>> /\ run.session.pc # "RETURNED"

PairInit ==
    /\ mode = "stream"
    /\ pc = "discover_manifest"
    /\ \E q \in Questions, p \in PatientIds :
          /\ state = initial_state(q, p)
          /\ final_state = initial_state(q, p)
    /\ events = <<>>
    /\ result = <<>>
    /\ raised = FALSE
    /\ executed = <<>>
    /\ llm_calls = 0
    /\ store_calls = 0
    /\ io = <<>>
    /\ answer_writes = <<>>
    /\ state_update = <<>>
    /\ demand = FALSE
    /\ closed = FALSE
    /\ pulls = 0
    /\ san_pc = 0
    /\ san_in = <<>>
    /\ san_out = <<>>
    /\ san_twice = <<>>
    /\ san_rest = <<>>
    /\ san_ref = <<>>
    /\ runs = [r \in 1..2 |-> [session   |-> NewSession(r),
                               alone     |-> NewSession(r),
                               alone_now |-> 0]]
    /\ _agent = "None"
    /\ _fhir_client = "None"
    /\ interleaved = FALSE
    /\ now = 0

\* invocation r was resumed and is suspended again, or over, with the locals
\* nxt; ref are the locals of the same resumption with no other invocation
\* around
Resume(r, nxt, ref, inp) ==
    /\ runs' = [runs EXCEPT ![r] = [session   |-> nxt,
                                    alone     |-> ref,
                                    alone_now |-> @.alone_now + RunTime(inp)]]
    /\ _agent' = "CompiledStateGraph"
    /\ _fhir_client' = IF inp.store # <<>> THEN "httpx.Client" ELSE _fhir_client
    /\ interleaved' = (interleaved \/ Suspended(runs[3 - r]))
    /\ now' = now + RunTime(inp)
    /\ UNCHANGED <<pipeline_vars, san_vars>>

\* invocation r runs its next node and yields the node's progress line
PairStep(r) ==
    /\ Session(runs, r).pc \notin {"END", "RETURNED"}
    /\ \E inp \in NodeInputs(Session(runs, r).pc, Session(runs, r).state) :
       \E out \in {NodeOutcome(Session(runs, r).state, inp)} :
       \E alone \in {NodeOutcome(runs[r].alone.state, inp)} :
       \E nxt \in {Merged(Session(runs, r), inp.node, out.update, now)} :
       \E ref \in {Merged(runs[r].alone, inp.node, alone.update,
                          runs[r].alone_now)} :
          Resume(r, nxt, ref, inp)

\* invocation r yields its last line
PairDone(r) ==
    /\ Session(runs, r).pc = "END"
    /\ \E nxt \in {Finished(Session(runs, r), now)} :
       \E ref \in {Finished(runs[r].alone, runs[r].alone_now)} :
          Resume(r, nxt, ref, [node |-> "done", store |-> <<>>, llm |-> <<>>])

PairNext == \E r \in 1..2 : PairStep(r) \/ PairDone(r)

PairSpec == PairInit /\ [][PairNext]_vars

(***************************************************************************)
(* Properties                                                              *)
(***************************************************************************)
Nodes == {"discover_manifest", "identify_relevant_types",
          "execute_and_extract", "synthesize_answer"}

\* the entry point has returned (batch) or yielded its last line (stream)
Terminal == pc = "RETURNED"

\* Discover has run and found nothing
EarlyTerminated == executed # <<>> /\ DOMAIN state.manifest = {}

\* the payload handed to the caller in a terminal state
Payload == IF mode = "batch" THEN result[1] ELSE events[Len(events)].data

PayloadFields == {"answer", "reasoning", "resources_consulted",
                  "facts_extracted", "processing_time_ms"}

\* some call of the log failed
SomeFailure(calls) == \E i \in 1..Len(calls) : ~calls[i].resp.ok

\* C1: whatever record-store queries, fetches and model calls fail, a batch
\* run never lets an exception out of navigate_ehr; until it has returned
\* there is a next step to take, and what it returns is a record with the
\* fields answer, reasoning, resources_consulted, facts_extracted and
\* processing_time_ms.
C1_BatchNeverRaises ==
    mode = "batch" =>
        /\ ~raised
        /\ pc \in Nodes \cup {"END", "RETURNED"}
        /\ pc # "RETURNED" => ENABLED Next
        /\ pc = "RETURNED" =>
              /\ Len(result) = 1
              /\ DOMAIN result[1] = PayloadFields

\* a batch run has returned although the model call of Synthesize failed
\* and some relevant type yielded no facts block
C1_Witness ==
    /\ mode = "batch"
    /\ Terminal
    /\ Len(result) = 1
    /\ SomeFailure(io)
    /\ Len(executed) = 4
    /\ Len(state.facts) < Len(state.relevant_types)

\* C2 (as claimed): in every terminal state the returned answer is a
\* non-empty text, also when the Synthesize completion sanitizes to nothing.
C2_AnswerNonEmpty == Terminal => Payload.answer # <<>>

\* C3: when Discover produces an empty manifest the run goes from Discover
\* straight to the terminal state: no other node runs, no model call and no
\* fetch is made (the only record-store requests are the catalog's manifest
\* queries), and the state and the payload hold no resources_consulted, no
\* facts and the no-data-found answer.
C3_EmptyManifestShortCircuit ==
    EarlyTerminated =>
        /\ pc \in {"END", "RETURNED"}
        /\ executed = <<"discover_manifest">>
        /\ llm_calls = 0
        /\ store_calls = Len(Catalog)
        /\ state.resources_consulted = <<>>
        /\ state.facts = <<>>
        /\ state.answer = NoDataAnswer
        /\ Terminal =>
              /\ Payload.resources_consulted = <<>>
              /\ Payload.facts_extracted = 0
              /\ Payload.answer = NoDataAnswer

\* a streaming run has ended after a Discover that found nothing
C3_Witness == EarlyTerminated /\ Terminal /\ mode = "stream"

\* s is a prefix of t
IsPrefix(s, t) == Len(s) <= Len(t) /\ SubSeq(t, 1, Len(s)) = s

\* C4 (as claimed): a streaming run yields one line per node run, in order,
\* and in all, the last line included, 3 lines when it ends at Discover and
\* 5 otherwise.
C4_EventCountAsClaimed ==
    (mode = "stream" /\ Terminal) =>
        /\ \A i \in 1..Len(executed) : events[i].step = executed[i]
        /\ Len(events) = IF EarlyTerminated THEN 3 ELSE 5

\* C4 (amended): a streaming run yields one progress line per node run, in
\* the order the nodes ran, and in all, the last line included, 2 lines when
\* it ends at Discover and 5 otherwise.
C4_EventCount ==
    mode = "stream" =>
        /\ Len(events) = Len(executed) + (IF Terminal THEN 1 ELSE 0)
        /\ \A i \in 1..Len(executed) : events[i].step = executed[i]
        /\ Terminal => Len(events) = IF EarlyTerminated THEN 2 ELSE 5

\* a streaming run that ended at Discover has yielded its two lines
C4_Witness ==
    mode = "stream" /\ Terminal /\ EarlyTerminated /\ Len(events) = 2

\* C5: a streaming run pulled to its end yields exactly one line with step
\* "done": it is the last line, it comes right after the progress line of the
\* last node that ran, and no line before it has step "done".
C5_OneDoneLast ==
    mode = "stream" =>
        /\ \A i \in 1..Len(events) :
              events[i].step = "done" <=> (Terminal /\ i = Len(events))
        /\ Terminal =>
              /\ Len(events) >= 2
              /\ events[Len(events)].step = "done"
              /\ events[Len(events) - 1].step = executed[Len(executed)]
              /\ Len(events) - 1 = Len(executed)

\* a streaming run through all four nodes has yielded its last line
C5_Witness ==
    /\ mode = "stream"
    /\ Terminal
    /\ Len(executed) = 4
    /\ events[Len(events)].step = "done"

\* C6: the streaming adapter's merged state equals the graph's state after
\* every node, so the payload of the last line equals, elapsed time apart,
\* what navigate_ehr returns from the same graph state.
C6_StreamEqualsBatch ==
    mode = "stream" =>
        /\ final_state = state
        /\ Terminal =>
              \A f \in PayloadFields \ {"processing_time_ms"} :
                  Payload[f] = ResultPayload(state, 0)[f]

\* a streaming run has ended with two facts blocks in its payload
C6_Witness ==
    mode = "stream" /\ Terminal /\ Payload.facts_extracted = 2

\* the Identify completion after sanitization and json.loads
IdentifyParsed(resp) ==
    json_loads(_strip_json_decoration(_strip_thinking(resp.content)))

\* the model call failed, or its output is not JSON, or it is not an array
IdentifyNonConforming(resp) ==
    ~resp.ok \/ IdentifyParsed(resp).kind \in {"error", "other"}

\* Identify has just run with a model call
AfterIdentify == pc = "execute_and_extract" /\ Len(io) = 1

\* C7: after an Identify on a non-empty manifest whose model call failed, or
\* returned something that is not JSON or not a JSON array, relevant_types
\* is exactly the manifest's keys.
C7_IdentifyFailOpen ==
    (AfterIdentify /\ IdentifyNonConforming(io[1].resp)) =>
        /\ Range(state.relevant_types) = DOMAIN state.manifest
        /\ state.relevant_types = ManifestKeys(state.manifest)

\* Identify fell back to both keys of a manifest after a completion that
\* parses to a JSON value other than an array
C7_Witness ==
    /\ AfterIdentify
    /\ io[1].resp.ok
    /\ IdentifyParsed(io[1].resp).kind = "other"
    /\ Cardinality(DOMAIN state.manifest) = 2
    /\ Len(state.relevant_types) = 2

\* Execute has just run
AfterExecute == pc = "synthesize_answer"

\* the positions of the call log where a model call failed
FailedExtractions(calls) ==
    {j \in 1..Len(calls) : calls[j].api = "LLM" /\ ~calls[j].resp.ok}

\* the facts block one model call of Execute stands for, given the fetch
\* that preceded it: the raw detail text when the call failed, the sanitized
\* completion when there is one, no block otherwise
BlocksOfCall(get, llm) ==
    IF ~llm.resp.ok
    THEN <<FactsBlock(llm.rtype, ResourceText(get.resp.entries))>>
    ELSE IF _strip_thinking(llm.resp.content) # <<>>
    THEN <<FactsBlock(llm.rtype, _strip_thinking(llm.resp.content))>>
    ELSE <<>>

\* the facts blocks a call log stands for, each from its own calls alone
RECURSIVE BlocksOfLog(_)
BlocksOfLog(calls) ==
    IF Len(calls) < 2 THEN <<>>
    ELSE LET n == Len(calls)
         IN  IF calls[n].api = "LLM"
             THEN BlocksOfLog(SubSeq(calls, 1, n - 2))
                      \o BlocksOfCall(calls[n - 1], calls[n])
             ELSE BlocksOfLog(SubSeq(calls, 1, n - 1))

\* the labels a call log stands for: one per fetch that returned entries
RECURSIVE LabelsOfLog(_)
LabelsOfLog(calls) ==
    IF calls = <<>> THEN <<>>
    ELSE LET c == Head(calls)
         IN  (IF c.api = "GET" /\ c.resp.ok /\ c.resp.entries # <<>>
              THEN <<ConsultedLabel(c.rtype, Len(c.resp.entries))>>
              ELSE <<>>) \o LabelsOfLog(Tail(calls))

\* C8: when a model call of Execute fails for a type whose records were
\* fetched, the block emitted for that type is its label followed by the raw
\* joined detail text of those records, and every block and every
\* resources_consulted label is the one its own fetch and model call stand
\* for, whatever happened to the other types.
C8_ExtractFallback ==
    (AfterExecute /\ FailedExtractions(io) # {}) =>
        /\ \A j \in FailedExtractions(io) :
              /\ io[j - 1].api = "GET" /\ io[j - 1].rtype = io[j].rtype
              /\ ResourceText(io[j - 1].resp.entries) # <<>>
              /\ FactsBlock(io[j].rtype, ResourceText(io[j - 1].resp.entries))
                     \in Range(state.facts)
        /\ state.facts = BlocksOfLog(io)
        /\ state.resources_consulted = LabelsOfLog(io)

\* Execute made two model calls: the first failed, the second returned facts
C8_Witness ==
    /\ AfterExecute
    /\ Count(io, "LLM") = 2
    /\ \E j, k \in 1..Len(io) :
          /\ j < k
          /\ io[j].api = "LLM" /\ ~io[j].resp.ok
          /\ io[k].api = "LLM" /\ io[k].resp.ok
          /\ io[j].rtype # io[k].rtype
    /\ Len(state.facts) = 2

\* C9: in every step facts keeps every entry it had, at the same position,
\* in the graph's state and in the streaming adapter's.
C9_FactsOnlyGrow ==
    [][/\ IsPrefix(state.facts, state.facts')
       /\ IsPrefix(final_state.facts, final_state.facts')]_vars

\* Synthesize has run on a state that holds facts
C9_Witness ==
    /\ Len(executed) = 4
    /\ Len(state.facts) >= 1
    /\ mode = "stream"
    /\ final_state.facts = state.facts

\* C10 (as claimed): sanitizing a sanitized text changes nothing.
C10_Idempotent == san_pc = 2 => san_twice = san_out

\* C11 (as claimed): sanitizing a remainder preceded by one deliberation
\* span, in any one of the three marker formats, gives what sanitizing the
\* remainder alone gives.
C11_RoundTrip == san_pc = 2 => san_out = san_ref

\* C11 restricted to the two paired vocabularies
C11_PairedRoundTrip ==
    (san_pc = 2 /\ san_in[1] \in {"<think>", "<unused94>"}) => san_out = san_ref

\* Discover has just run: io is the log of its queries
AfterDiscover == Len(executed) = 1

\* the responses of a log of queries, each failed query replaced by a
\* response without records
FailuresAsEmpty(calls) ==
    [i \in 1..Len(calls) |->
        IF calls[i].resp.ok THEN calls[i].resp
        ELSE [ok |-> TRUE, entries |-> <<>>]]

\* C12: after a Discover in which the query of some type failed, every
\* catalog type was still queried, the failed types are not in the manifest,
\* the manifest is the one the same responses give with each failed query
\* answered by no records, and when every query failed the run ends with the
\* no-data-found answer and no error.
C12_QueryFailureIsNoRecords ==
    (AfterDiscover /\ \E i \in 1..Len(io) : ~io[i].resp.ok) =>
        /\ ~raised
        /\ Len(io) = Len(Catalog)
        /\ \A i \in 1..Len(io) :
              /\ io[i].api = "GET" /\ io[i].rtype = Catalog[i]
              /\ ~io[i].resp.ok => Catalog[i] \notin DOMAIN state.manifest
        /\ state.manifest =
               get_patient_data_manifest(FailuresAsEmpty(io)).manifest
        /\ (\A i \in 1..Len(io) : ~io[i].resp.ok) =>
               /\ pc \in {"END", "RETURNED"}
               /\ state.answer = NoDataAnswer
               /\ Terminal => Payload.answer = NoDataAnswer

\* the first query of Discover failed and a later type is in the manifest
C12_Witness ==
    /\ AfterDiscover
    /\ ~io[1].resp.ok
    /\ \E i \in 2..Len(io) : Catalog[i] \in DOMAIN state.manifest

\* Synthesize has just run: io is the log of its model call
AfterSynthesize == Len(executed) = 4

\* C13: after a Synthesize on non-empty facts whose model call failed, the
\* answer is the "Extracted Facts" label followed by every facts block, in
\* the order of facts, joined by blank lines.
C13_SynthesisFallback ==
    (AfterSynthesize /\ io # <<>> /\ ~io[1].resp.ok) =>
        LET n    == Len(ExtractedFactsHeader)
            rest == SubSeq(state.answer, n + 1, Len(state.answer))
        IN  /\ state.facts # <<>>
            /\ SubSeq(state.answer, 1, n) = ExtractedFactsHeader
            /\ rest = Join(state.facts, <<"\n", "\n">>)
            /\ \A i \in 1..Len(state.facts) :
                  \E k \in 1..Len(rest) : OccursAt(rest, state.facts[i], k)
            /\ Terminal => Payload.answer = state.answer

\* Synthesize fell back on two facts blocks after a failed model call
C13_Witness ==
    /\ AfterSynthesize
    /\ io # <<>>
    /\ ~io[1].resp.ok
    /\ Len(state.facts) = 2
    /\ Terminal

\* C14: a Synthesize on empty facts makes no model call and no store call
\* and writes the no-relevant-data answer and an empty reasoning.
C14_EmptyFactsNoCall ==
    [][(pc = "synthesize_answer" /\ state.facts = <<>>
           /\ executed' = Append(executed, "synthesize_answer")) =>
          /\ llm_calls' = llm_calls
          /\ store_calls' = store_calls
          /\ io' = <<>>
          /\ state'.answer = NoRelevantDataAnswer
          /\ state'.reasoning = <<>>]_vars

\* Synthesize has run on empty facts
C14_Witness ==
    /\ AfterSynthesize
    /\ state.facts = <<>>
    /\ state.relevant_types # <<>>
    /\ state.answer = NoRelevantDataAnswer

\* C15 (as claimed): after a Synthesize on non-empty facts the reasoning is
\* the facts joined by blank lines, whether the model call succeeded or not.
C15_ReasoningIsJoinedFacts ==
    (AfterSynthesize /\ state.facts # <<>>) =>
        /\ state.reasoning = Join(state.facts, <<"\n", "\n">>)
        /\ Terminal => Payload.reasoning = Join(state.facts, <<"\n", "\n">>)

\* C16: the answer is written at most once in a run, never by Identify or by
\* Execute; a run that has reached the end of the graph has written it
\* exactly once, by Discover when the manifest is empty and by Synthesize
\* otherwise.
C16_AnswerWrittenOnce ==
    /\ Len(answer_writes) <= 1
    /\ \A i \in 1..Len(answer_writes) :
          answer_writes[i] \in {"discover_manifest", "synthesize_answer"}
    /\ pc \in {"END", "RETURNED"} =>
          answer_writes = IF EarlyTerminated THEN <<"discover_manifest">>
                          ELSE <<"synthesize_answer">>
    /\ (answer_writes = <<>>) => state.answer = <<>>

\* a run through the four nodes has ended: Synthesize alone wrote the answer
C16_Witness ==
    /\ Terminal
    /\ Len(executed) = 4
    /\ answer_writes = <<"synthesize_answer">>

\* C18: in a streaming run a node runs, and issues its store and model
\* calls, only while the consumer waits for a line: the k-th node has run
\* only if the consumer has asked for k lines, and once the consumer has
\* gone away no node runs and no call is issued.
C18_StoppableStream ==
    [][mode = "stream" =>
          /\ (executed' # executed \/ llm_calls' # llm_calls
                 \/ store_calls' # store_calls \/ events' # events)
                => (demand /\ ~closed /\ Len(executed') <= pulls)
          /\ Len(events') <= pulls'
          /\ closed => UNCHANGED <<executed, llm_calls, store_calls, events>>]_vars

\* the consumer went away after the progress line of Identify: Execute never
\* ran
C18_Witness ==
    /\ mode = "stream"
    /\ closed
    /\ pc = "execute_and_extract"
    /\ Len(events) = 2
    /\ executed = <<"discover_manifest", "identify_relevant_types">>

\* C19: in every state every element of relevant_types is a key of the
\* manifest, in the graph's state and in the streaming adapter's.
C19_RelevantTypesInManifest ==
    /\ Range(state.relevant_types) \subseteq DOMAIN state.manifest
    /\ Range(final_state.relevant_types) \subseteq DOMAIN final_state.manifest

\* Identify kept a manifest key out of an array that also names a type the
\* manifest does not hold
C19_Witness ==
    /\ AfterIdentify
    /\ io[1].resp.ok
    /\ IdentifyParsed(io[1].resp).kind = "list"
    /\ \E i \in 1..Len(IdentifyParsed(io[1].resp).items) :
          ~InManifest(IdentifyParsed(io[1].resp).items[i], state.manifest)
    /\ state.relevant_types # <<>>

\* the first line of the facts block of a type
BlockLabel(rtype) == SubSeq(FactsBlock(rtype, <<>>), 1, 9)

\* C20 (as claimed): after Execute, for every relevant type,
\* resources_consulted holds a label of the type exactly when facts holds a
\* block labelled with the type.
C20_FactsAndLabelsPaired ==
    AfterExecute =>
        \A i \in 1..Len(state.relevant_types) :
            LET T == state.relevant_types[i]
            IN  (\E k \in 1..Len(state.resources_consulted) :
                     state.resources_consulted[k][1] = T)
                <=> (\E k \in 1..Len(state.facts) :
                         startswith(state.facts[k], BlockLabel(T)))

\* lines with the elapsed time of the last line left out
Timeless(lines) ==
    [i \in 1..Len(lines) |->
        IF lines[i].step = "done"
        THEN [lines[i] EXCEPT !.data.processing_time_ms = 0]
        ELSE lines[i]]

\* C17 (as claimed): whatever the interleaving of two streaming invocations,
\* the lines each has yielded, the whole payload of the last line included,
\* are the lines it yields when it runs alone with the responses it was
\* given.
C17_SameAsAlone ==
    Len(runs) = 2 =>
        \A r \in 1..2 :
            runs[r].session.events = runs[r].alone.events

\* C17 (amended): whatever the interleaving of two streaming invocations,
\* the lines each has yielded, the payload of the last line included but for
\* its elapsed time, are the lines it yields when it runs alone with the
\* responses it was given; what the two share, the compiled graph and the
\* record-store handle, holds no field of a session.
C17_NoInterference ==
    /\ Len(runs) = 2 =>
          \A r \in 1..2 :
              /\ Timeless(runs[r].session.events) =
                     Timeless(runs[r].alone.events)
              /\ runs[r].session.state.question = PairQuestions[r]
              /\ runs[r].session.state.patient_id = PairPatients[r]
    /\ _agent \in {"None", "CompiledStateGraph"}
    /\ _fhir_client \in {"None", "httpx.Client"}

\* two interleaved invocations have both yielded their last line, one after
\* four nodes and with another answer than the other
C17_Witness ==
    /\ Len(runs) = 2
    /\ interleaved
    /\ \A r \in 1..2 : runs[r].session.pc = "RETURNED"
    /\ Len(runs[1].session.events) = 5
    /\ runs[1].session.final_state.answer # runs[2].session.final_state.answer
    /\ _fhir_client = "httpx.Client"

\* the fetches of a call log, in the order they were issued
GetsOfLog(calls) == SelectSeq(calls, LAMBDA c : c.api = "GET")

\* the positions of relevant_types whose fetch failed
FailedFetches(calls) ==
    {i \in 1..Len(GetsOfLog(calls)) : ~GetsOfLog(calls)[i].resp.ok}

NodeOrder == <<"discover_manifest", "identify_relevant_types",
               "execute_and_extract", "synthesize_answer">>

\* C22: in every state the nodes that have run are the first nodes of the
\* graph's order, each once and in that order; the node to run next is the
\* one after them; and a run that has reached the end of the graph has run
\* Discover alone, on an empty manifest, or all four nodes.
C22_StagesInOrder ==
    /\ IsPrefix(executed, NodeOrder)
    /\ pc \in Nodes => pc = NodeOrder[Len(executed) + 1]
    /\ pc \in {"END", "RETURNED"} =>
          \/ executed = <<"discover_manifest">> /\ DOMAIN state.manifest = {}
          \/ executed = NodeOrder /\ DOMAIN state.manifest # {}

\* a batch run has gone through the four nodes, in order, and has not yet
\* returned
C22_Witness ==
    /\ mode = "batch"
    /\ pc = "END"
    /\ executed = NodeOrder
    /\ result = <<>>

\* C23 (as claimed): every run whose external calls all return or fail
\* eventually reaches the end of the graph.
C23_AlwaysReachesTerminal == <>(pc \in {"END", "RETURNED"})

\* C23 (amended): a run whose external calls all return or fail, and whose
\* consumer, when it streams, has not gone away, eventually reaches the end
\* of the graph, and a batch run returns; no run executes more than four
\* nodes, after four nodes the run is at the end of the graph, and there no
\* node is enabled.
C23_ReachesTerminal ==
    /\ [](/\ Len(executed) <= 4
          /\ pc \in {"END", "RETURNED"} => ~ENABLED LeaveNode
          /\ Len(executed) = 4 => pc \in {"END", "RETURNED"})
    /\ <>(pc \in {"END", "RETURNED"} \/ closed)
    /\ (mode = "batch") => <>Terminal

\* a streaming run whose consumer asked for every line has run four nodes
\* and reached the end of the graph
C23_Witness ==
    /\ mode = "stream"
    /\ ~closed
    /\ pulls = 4
    /\ pc = "END"
    /\ Len(executed) = 4

\* the value a merge leaves in field k of a state st, given the update u
MergedField(st, u, k) ==
    IF k \notin DOMAIN u THEN st[k]
    ELSE IF k = "facts" THEN st[k] \o u[k]
    ELSE u[k]

\* C24: a merge of a partial update overwrites the fields the update
\* carries, except facts, which becomes the old facts followed by the
\* update's, leaves every other field as it was and adds no field, in the
\* graph's state and in the streaming adapter's.
C24_MergeFrame ==
    [][/\ DOMAIN state' = DOMAIN state
       /\ \A k \in DOMAIN state :
             state'[k] = MergedField(state, state_update', k)
       /\ DOMAIN final_state' = DOMAIN final_state
       /\ \A k \in DOMAIN final_state :
             final_state'[k] = MergedField(final_state, state_update', k)]_vars

\* an update that carries facts and no answer was merged into a state that
\* held facts and an answer: the facts are the old ones followed by the
\* update's, the answer is the old one, in both states
C24_Witness ==
    /\ "facts" \in DOMAIN state_update
    /\ "answer" \notin DOMAIN state_update
    /\ "reasoning" \in DOMAIN state_update
    /\ Len(state_update.facts) = 1
    /\ Len(state.facts) = 2
    /\ state.facts[2] = state_update.facts[1]
    /\ state.answer = <<"old answer">>
    /\ state.reasoning = state_update.reasoning
    /\ final_state = state

\* the fields a node's update may carry
Writes(node) ==
    CASE node = "discover_manifest" ->
             {"manifest", "answer", "facts", "resources_consulted"}
      [] node = "identify_relevant_types" -> {"relevant_types"}
      [] node = "execute_and_extract" -> {"facts", "resources_consulted"}
      [] node = "synthesize_answer" -> {"answer", "reasoning"}

\* C25: no step changes question or patient_id; a node's update carries
\* only the fields of that node, so manifest is written by Discover alone
\* and relevant_types by Identify alone; a step of Execute or of Synthesize
\* leaves question, patient_id, manifest and relevant_types as they were, in
\* the graph's state and in the streaming adapter's.
C25_InputsAndSelectionsFrozen ==
    [][/\ state'.question = state.question
       /\ state'.patient_id = state.patient_id
       /\ final_state'.question = final_state.question
       /\ final_state'.patient_id = final_state.patient_id
       /\ executed' # executed =>
             /\ executed' = Append(executed, pc)
             /\ DOMAIN state_update' \subseteq Writes(pc)
             /\ pc # "discover_manifest" =>
                   /\ DOMAIN state'.manifest = DOMAIN state.manifest
                   /\ \A t \in DOMAIN state.manifest :
                         state'.manifest[t] = state.manifest[t]
                   /\ DOMAIN final_state'.manifest = DOMAIN final_state.manifest
             /\ pc # "identify_relevant_types" =>
                   /\ state'.relevant_types = state.relevant_types
                   /\ final_state'.relevant_types = final_state.relevant_types
       /\ executed' = executed =>
             /\ DOMAIN state'.manifest = DOMAIN state.manifest
             /\ state'.relevant_types = state.relevant_types]_vars

\* a streaming run has gone through Execute and Synthesize with a manifest
\* of two types of which Identify selected one
C25_Witness ==
    /\ mode = "stream"
    /\ Len(executed) = 4
    /\ Cardinality(DOMAIN state.manifest) = 2
    /\ Len(state.relevant_types) = 1
    /\ DOMAIN state_update = {"answer", "reasoning"}
    /\ final_state.manifest = state.manifest
    /\ final_state.relevant_types = state.relevant_types

\* C26 (as claimed): after Identify relevant_types holds no type twice,
\* whatever the model returned, and after Execute no type was fetched twice
\* or is listed twice in resources_consulted.
C26_NoTypeTwice ==
    /\ \A i, j \in 1..Len(state.relevant_types) :
          i # j => state.relevant_types[i] # state.relevant_types[j]
    /\ \A i, j \in 1..Len(state.resources_consulted) :
          i # j => state.resources_consulted[i][1] # state.resources_consulted[j][1]
    /\ AfterExecute =>
          \A i, j \in 1..Len(GetsOfLog(io)) :
              i # j => GetsOfLog(io)[i].rtype # GetsOfLog(io)[j].rtype

\* C27 (as claimed): whenever the manifest has keys, Identify leaves a
\* non-empty relevant_types, whatever the model returned, so Execute runs on
\* an empty relevant_types only when the manifest is empty.
C27_SelectionNonEmpty ==
    (DOMAIN state.manifest # {}
        /\ pc \in {"execute_and_extract", "synthesize_answer", "END", "RETURNED"})
        => state.relevant_types # <<>>

\* the positions at which some section starter occurs first, the start of
\* the text left out
MarkerHits(t) ==
    {p \in {find(t, SectionMarkers[k]) : k \in 1..Len(SectionMarkers)} : p > 0}

\* the cut as claimed: at the smallest position at which any section
\* starter occurs; without one the first paragraph is dropped
EarliestCut(t) ==
    IF MarkerHits(t) # {}
    THEN LET p == CHOOSE p \in MarkerHits(t) : \A q \in MarkerHits(t) : p <= q
         IN  strip(SliceFrom(t, p))
    ELSE LET cut == find(t, <<"\n", "\n">>)
         IN  IF cut >= 0 THEN SliceFrom(t, cut + 2) ELSE t

\* C28 (as claimed): a text that starts with the "thought" token is cut at
\* the smallest position at which any section starter occurs, whichever
\* starter that is, and loses its first paragraph only when none occurs.
C28_CutsAtEarliestMarker ==
    (san_pc >= 1 /\ startswith(san_in, <<"thought", "\n">>)) =>
        san_out = strip(EarliestCut(strip(san_in)))

\* t holds a well-paired thinking block: an open marker and, after it, the
\* close marker of the same vocabulary
HasPairedBlock(t) ==
    \E i, j \in 1..Len(t) :
        /\ i < j
        /\ \/ t[i] = "<think>" /\ t[j] = "</think>"
           \/ t[i] = "<unused94>" /\ t[j] = "<unused95>"

\* the symbols of a text that are not whitespace
NonWhitespace(t) == SelectSeq(t, LAMBDA c : c \notin Whitespace)

\* C29 (as claimed): a text without a well-paired thinking block (and
\* without the model_output and thought prefixes, which are cut on their
\* own) comes out of the sanitizer with its non-whitespace content
\* unchanged, whatever unpaired or ill-arranged markers it holds.
C29_OnlyWellPairedRemoved ==
    (/\ san_pc >= 1
     /\ "model_output" \notin Range(san_in)
     /\ "thought" \notin Range(san_in)
     /\ ~HasPairedBlock(san_in))
        => NonWhitespace(san_out) = NonWhitespace(san_in)

(***************************************************************************)
(* Manifest scan harness: discover_manifest over bundles that mix well     *)
(* formed, blank and malformed records in any order.                       *)
(***************************************************************************)
\* the records a bundle of the harness is made of
ScanRecords(rtype) ==
    { Resource(rtype, "Glucose", "2345-7", FALSE),
      Resource(rtype, "", "", FALSE),
      Resource(rtype, "", "", TRUE) }

\* the bundles of at most n entries
RECURSIVE ScanBundles(_, _)
ScanBundles(rtype, n) ==
    IF n = 0 THEN {<<>>}
    ELSE LET shorter == ScanBundles(rtype, n - 1)
         IN  shorter \cup {Append(b, r) : b \in {c \in shorter : Len(c) = n - 1},
                                          r \in ScanRecords(rtype)}

ScanResponses(rtype) ==
    {HttpError} \cup {[ok |-> TRUE, entries |-> b] :
                         b \in ScanBundles(rtype, MaxEntries)}

\* the outcomes of the manifest query of each type of a sequence
RECURSIVE ScanOutcomes(_)
ScanOutcomes(rtypes) ==
    IF rtypes = <<>> THEN {<<>>}
    ELSE {<<r>> \o rest : r \in ScanResponses(Head(rtypes)),
                          rest \in ScanOutcomes(Tail(rtypes))}

ScanInit == Init /\ mode = "batch"

\* the graph runs discover_manifest
Scan ==
    /\ pc = "discover_manifest"
    /\ \E resp \in ScanOutcomes(Catalog) :
       \E out \in {discover_manifest(state, resp)} :
          Step("discover_manifest", out)

ScanNext == Scan

ScanSpec == ScanInit /\ [][ScanNext]_vars

\* the manifest query of type T, as logged, succeeded and returned a record
\* whose brief summary is non-empty
QueryFoundSummary(calls, T) ==
    \E i \in 1..Len(calls) :
        /\ calls[i].api = "GET"
        /\ calls[i].rtype = T
        /\ calls[i].resp.ok
        /\ \E j \in 1..Len(calls[i].resp.entries) :
              LET r == calls[i].resp.entries[j]
              IN  ~BriefRaises(r) /\ _summarize_resource_brief(r) # <<>>

\* C30: after Discover has returned, every key of the manifest is a type of
\* the catalog, every key maps to a non-empty list of non-empty summaries,
\* and a type T is a key if and only if T's query succeeded and returned at
\* least one record whose brief summary is non-empty.
C30_ManifestWellFormed ==
    (AfterDiscover /\ ~raised) =>
        /\ DOMAIN state.manifest \subseteq Range(FHIR_RESOURCE_TYPES)
        /\ \A T \in DOMAIN state.manifest :
              /\ state.manifest[T] # <<>>
              /\ \A k \in 1..Len(state.manifest[T]) :
                    state.manifest[T][k] # <<>>
        /\ \A T \in CatalogTypes :
              T \in DOMAIN state.manifest <=> QueryFoundSummary(io, T)

\* what does hold: the shape of the manifest, and a key only
\* for a type whose query found a summary
ManifestKeysOnlyWhereFound ==
    (AfterDiscover /\ ~raised) =>
        /\ DOMAIN state.manifest \subseteq Range(FHIR_RESOURCE_TYPES)
        /\ \A T \in DOMAIN state.manifest :
              /\ state.manifest[T] # <<>>
              /\ \A k \in 1..Len(state.manifest[T]) :
                    state.manifest[T][k] # <<>>
              /\ QueryFoundSummary(io, T)


====
